---------------------------- MODULE Spec2Model ----------------------------
(***************************************************************************)
(* The time tracker of src/capture.py as a state machine: the session      *)
(* state of run_tracker_app (task descriptor, stopwatch flags), the store  *)
(* file tasks.yaml as load_tasks and save_tasks see it, the wall clock     *)
(* time.time() reads, and one action per command of the loop.              *)
(*                                                                         *)
(* The progress tracker of src/progress.py as a second state machine       *)
(* (ProgressSpec): the task list of its run_tracker_app, the store file    *)
(* progress-data.yaml and one action per command of its loop.  Its pure    *)
(* functions are also applied on their own to inputs drawn from bounded    *)
(* sets (PureSpec).  Each specification leaves the variables of the        *)
(* others as they are.                                                     *)
(*                                                                         *)
(* Time is counted in clock ticks, TicksPerMs of them to the millisecond:  *)
(* time.time() is finer than the millisecond the record's timestamps keep, *)
(* so isoformat(timespec='milliseconds') (a truncation) and                *)
(* round(duration, 3) (a rounding) are not the identity.  A record's       *)
(* start, end and duration are in milliseconds.                            *)
(*                                                                         *)
(* An optional value (None in the code) is the empty sequence, a present   *)
(* value v is <<v>>.  A text is the sequence of its characters.            *)
(***************************************************************************)
EXTENDS Integers, Sequences, FiniteSets, TLC

VARIABLES
    current_task_info,     \* app_state["current_task_info"]: type, tag, name
    is_stopwatch_running,  \* app_state["is_stopwatch_running"]
    stopwatch_start_time,  \* app_state["stopwatch_start_time"]: <<>> or <<ticks>>
    last_saved_duration,   \* app_state["last_saved_duration"]: <<>> or <<ticks>>
    file,                  \* tasks.yaml: [kind, recs]
    clock,                 \* what time.time() returns now, in ticks
    pc,                    \* "loop", "exited" (break), "crashed" (exception left the loop)
    command,               \* the command of the last loop iteration ("" at a timeout)
    messages,              \* the display_message calls of the last command, in order
    typed_times,           \* the texts typed at the prompts of the last command 'a'
    unsaved,               \* history: the task entries whose save_tasks failed
                           \* since the last save that succeeded
    app_tasks,             \* progress.py: app_state["tasks"]
    data_file,             \* progress-data.yaml: [kind, recs]
    progress_pc,           \* progress.py: "off", "loop", "exited", "crashed"
    progress_command,      \* progress.py: the command of the last loop iteration
    progress_messages,     \* progress.py: the display_message calls of that command
    progress_typed,        \* progress.py: the texts typed at its prompts
    call,                  \* the pure function applied last and its arguments
    result                 \* what that application returned

capture_vars ==
    <<current_task_info, is_stopwatch_running, stopwatch_start_time,
      last_saved_duration, file, clock, pc, command, messages, typed_times, unsaved>>

progress_vars ==
    <<app_tasks, data_file, progress_pc, progress_command, progress_messages,
      progress_typed>>

call_vars == <<call, result>>

vars == <<capture_vars, progress_vars, call_vars>>

(* The progress tracker is not running. *)
ProgressOff ==
    /\ app_tasks = <<>>
    /\ data_file = [kind |-> "missing", recs |-> <<>>]
    /\ progress_pc = "off"
    /\ progress_command = ""
    /\ progress_messages = <<>>
    /\ progress_typed = <<>>

(* No pure function is applied on its own. *)
NoCall == call = <<>> /\ result = <<>>

state == <<current_task_info, is_stopwatch_running, stopwatch_start_time,
           last_saved_duration>>

----------------------------------------------------------------------------
(* Bounds of the model. *)

MaxClock == 3

MaxRecords == 2

(* The resolution of time.time() relative to the millisecond. *)
TicksPerMs == 3

----------------------------------------------------------------------------
(* Texts and the conversions applied to them. *)

None == <<>>

Some(v) == <<v>>

IsPrefix(s, t) == Len(s) <= Len(t) /\ SubSeq(t, 1, Len(s)) = s

(* What the three get_curses_input calls of prompt_for_task_details can    *)
(* return: the texts typed for type, tag and name.                         *)
TypedDetails ==
    { << <<>>, <<>>, <<>> >>,
      << <<" ">>, <<>>, <<" ", " ">> >>,
      << <<" ", "w">>, <<>>, <<" ">> >>,
      << <<>>, <<"w", " ">>, <<" ", "w", " ">> >> }

RECURSIVE lstrip(_)
lstrip(s) == IF s # <<>> /\ Head(s) = " " THEN lstrip(Tail(s)) ELSE s

RECURSIVE rstrip(_)
rstrip(s) ==
    IF s # <<>> /\ s[Len(s)] = " " THEN rstrip(SubSeq(s, 1, Len(s) - 1)) ELSE s

strip(s) == rstrip(lstrip(s))

(* The keys getch() can return; NoKey is -1, the timeout. *)
NoKey == "-1"

Keys == {"i", "I", "s", "S", "a", "A", "q", "Q", "x"}

lower(k) ==
    CASE k = "I" -> "i"
      [] k = "S" -> "s"
      [] k = "A" -> "a"
      [] k = "Q" -> "q"
      [] k = "D" -> "d"
      [] OTHER -> k

(* A typed timestamp after strip(), as the fields strptime reads from it:  *)
(* <<day, hour, minute>> for "%Y-%m-%d %H:%M", <<day, hour, minute,        *)
(* second>> for "%Y-%m-%d %H:%M:%S"; any other shape matches neither       *)
(* format.  Here 09:00:00, 10:30 and 24:00 of day 0.                       *)
TimeTexts == { <<0, 9, 0, 0>>, <<0, 10, 30>>, <<0, 24, 0>> }

fmts == <<"%Y-%m-%d %H:%M", "%Y-%m-%d %H:%M:%S">>

(* A strptime that checks the shape of the text but not the range of its   *)
(* fields.                                                                 *)
strptime_unchecked(text, fmt) ==
    LET n == IF fmt = "%Y-%m-%d %H:%M" THEN 3 ELSE 4
        sec == IF n = 4 THEN text[4] ELSE 0
    IN  IF Len(text) = n
        THEN Some(((text[1] * 24 + text[2]) * 60 + text[3]) * 60 + sec)
        ELSE None

(* datetime.strptime: the seconds since day 0, or None for a ValueError. *)
strptime(text, fmt) ==
    LET n == IF fmt = "%Y-%m-%d %H:%M" THEN 3 ELSE 4
        sec == IF n = 4 THEN text[4] ELSE 0
    IN  IF /\ Len(text) = n
           /\ text[2] < 24
           /\ text[3] < 60
           /\ sec < 60
        THEN Some(((text[1] * 24 + text[2]) * 60 + text[3]) * 60 + sec)
        ELSE None

(* The loop over fmts: the first format that parses, else None. *)
RECURSIVE parse_time(_, _)
parse_time(text, i) ==
    IF i > Len(fmts) THEN None
    ELSE IF strptime(text, fmts[i]) # None THEN strptime(text, fmts[i])
    ELSE parse_time(text, i + 1)

(* datetime.fromtimestamp(t).isoformat(timespec='milliseconds'): the       *)
(* millisecond the instant falls in (the rest is cut off).                 *)
isoformat_ms(ticks) == ticks \div TicksPerMs

(* A round(duration, 3) that cuts off instead of rounding. *)
round3_floor(ticks) == ticks \div TicksPerMs

(* round(duration, 3): the nearest millisecond, a tie to the even one. *)
round3(ticks) ==
    LET q == ticks \div TicksPerMs
        r == ticks % TicksPerMs
    IN  IF 2 * r < TicksPerMs THEN q
        ELSE IF 2 * r > TicksPerMs THEN q + 1
        ELSE IF q % 2 = 0 THEN q ELSE q + 1

(* A validity test that accepts every descriptor. *)
is_task_info_valid_always(task_info) == TRUE

(* The validity test of the stricter policy: every field filled. *)
is_task_info_valid_all(task_info) ==
    task_info.type # <<>> /\ task_info.tag # <<>> /\ task_info.name # <<>>

is_task_info_valid(task_info) ==
    task_info.type # <<>> \/ task_info.tag # <<>> \/ task_info.name # <<>>

(* A task_entry that leaves the descriptor out. *)
task_entry_blank(task_info, start, end, duration) ==
    [type |-> <<>>, tag |-> <<>>, name |-> <<>>,
     start |-> start, end |-> end, duration |-> duration]

(* The task_entry dictionary both handlers build. *)
task_entry(task_info, start, end, duration) ==
    [type |-> task_info.type, tag |-> task_info.tag, name |-> task_info.name,
     start |-> start, end |-> end, duration |-> duration]

----------------------------------------------------------------------------
(* The store. *)

(* How an access to the file can end for reasons outside the program. *)
ReadOutcomes == {"ok", "OSError"}

WriteOutcomes == {"ok", "open fails", "write fails empty", "write fails partial"}

(* A load_tasks that never reads the file. *)
load_tasks_empty(f, io) ==
    [exc |-> "", is_list |-> TRUE, tasks |-> <<>>, msgs |-> <<>>]

(* load_tasks: exc is the exception that leaves it ("" for none), is_list  *)
(* tells whether the value returned is a list, tasks is that list.         *)
load_tasks(f, io) ==
    IF f.kind = "missing"
    THEN [exc |-> "", is_list |-> TRUE, tasks |-> <<>>, msgs |-> <<>>]
    ELSE IF io = "OSError"
    THEN [exc |-> "OSError", is_list |-> FALSE, tasks |-> <<>>, msgs |-> <<>>]
    ELSE IF f.kind = "malformed"
    THEN [exc |-> "", is_list |-> TRUE, tasks |-> <<>>,
          msgs |-> <<"Error loading YAML">>]
    ELSE IF f.kind = "nonlist"
    THEN [exc |-> "", is_list |-> FALSE, tasks |-> <<>>, msgs |-> <<>>]
    ELSE [exc |-> "", is_list |-> TRUE, tasks |-> f.recs, msgs |-> <<>>]

(* save_tasks: the file afterwards and the message shown.  open(.., 'w')   *)
(* truncates before yaml.dump writes, so a write that fails leaves the     *)
(* file empty or cut short.                                                *)
save_tasks(f, tasks, io) ==
    CASE io = "ok" ->
           [file |-> [kind |-> "list", recs |-> tasks], msgs |-> <<>>]
      [] io = "open fails" ->
           [file |-> f, msgs |-> <<"Error saving tasks">>]
      [] io = "write fails empty" ->
           [file |-> [kind |-> "list", recs |-> <<>>],
            msgs |-> <<"Error saving tasks">>]
      [] OTHER ->
           [file |-> [kind |-> "malformed", recs |-> <<>>],
            msgs |-> <<"Error saving tasks">>]

(* ensure_data_file_exists: a missing file is created holding []. *)
ensure_data_file_exists(f) ==
    IF f.kind = "missing" THEN [kind |-> "list", recs |-> <<>>] ELSE f

(* The records a load of the file yields: what is persisted. *)
persisted == IF file.kind = "list" THEN file.recs ELSE <<>>

----------------------------------------------------------------------------
(* The session. *)

FilesAtStart ==
    { [kind |-> k, recs |-> <<>>] : k \in {"missing", "list", "malformed", "nonlist"} }

Init ==
    /\ current_task_info = [type |-> <<>>, tag |-> <<>>, name |-> <<>>]
    /\ is_stopwatch_running = FALSE
    /\ stopwatch_start_time = None
    /\ last_saved_duration = None
    /\ file \in { ensure_data_file_exists(f) : f \in FilesAtStart }
    /\ clock = 0
    /\ pc = "loop"
    /\ command = ""
    /\ messages = <<>>
    /\ typed_times = <<>>
    /\ unsaved = {}
    /\ ProgressOff
    /\ NoCall

(* Time passes. *)
Tick ==
    /\ pc = "loop"
    /\ clock < MaxClock
    /\ clock' = clock + 1
    /\ UNCHANGED <<state, file, pc, command, messages, typed_times, unsaved>>
    /\ UNCHANGED <<progress_vars, call_vars>>

(* getch() returns -1: no command this iteration. *)
Timeout ==
    /\ pc = "loop"
    /\ command' = ""
    /\ messages' = <<>>
    /\ typed_times' = <<>>
    /\ UNCHANGED <<state, file, clock, pc, unsaved>>
    /\ UNCHANGED <<progress_vars, call_vars>>

(* The loop read a key and lowered it to command c. *)
Pressed(c) ==
    /\ pc = "loop"
    /\ command' = c
    /\ c \in { lower(k) : k \in Keys }
    /\ IF c = "a" THEN TRUE ELSE typed_times' = <<>>

(* A prompt_for_task_details without its guard. *)
prompt_for_task_details_unguarded ==
    /\ Pressed("i")
    /\ \E typed \in TypedDetails :
         /\ current_task_info' = [type |-> strip(typed[1]), tag |-> strip(typed[2]),
                                  name |-> strip(typed[3])]
         /\ messages' = <<"Enter task details", "Task info updated">>
    /\ UNCHANGED <<is_stopwatch_running, stopwatch_start_time,
                   last_saved_duration, file, clock, pc, unsaved>>
    /\ UNCHANGED <<progress_vars, call_vars>>

(* 'i': prompt_for_task_details. *)
prompt_for_task_details ==
    /\ Pressed("i")
    /\ IF is_stopwatch_running
       THEN /\ messages' = <<"Cannot input new task while stopwatch is running">>
            /\ UNCHANGED current_task_info
       ELSE \E typed \in TypedDetails :
              LET info == [type |-> strip(typed[1]), tag |-> strip(typed[2]),
                           name |-> strip(typed[3])]
              IN  /\ current_task_info' = info
                  /\ messages' =
                       <<"Enter task details",
                         IF is_task_info_valid(info)
                         THEN "Task info updated"
                         ELSE "Warning: Task fields empty">>
    /\ UNCHANGED <<is_stopwatch_running, stopwatch_start_time,
                   last_saved_duration, file, clock, pc, unsaved>>
    /\ UNCHANGED <<progress_vars, call_vars>>

(* 's' while running: the stop branch of handle_stopwatch_toggle.  The     *)
(* session is reset before the store is touched; an exception of           *)
(* load_tasks, or of append on a value that is no list, is caught nowhere  *)
(* and ends run_tracker_app.                                               *)
stop_stopwatch ==
    LET end_time == clock
        duration == end_time - stopwatch_start_time[1]
        entry == task_entry(current_task_info,
                            isoformat_ms(end_time - duration),
                            isoformat_ms(end_time),
                            round3(duration))
    IN  /\ is_stopwatch_running' = FALSE
        /\ stopwatch_start_time' = None
        /\ last_saved_duration' = Some(duration)
        /\ \E rio \in ReadOutcomes :
             LET ld == load_tasks(file, rio)
             IN  IF ld.exc # "" \/ ~ld.is_list
                 THEN /\ pc' = "crashed"
                      /\ messages' = ld.msgs
                      /\ UNCHANGED <<file, unsaved>>
                 ELSE /\ Len(ld.tasks) + Cardinality(unsaved) < MaxRecords
                      /\ \E wio \in WriteOutcomes :
                           LET sv == save_tasks(file, Append(ld.tasks, entry), wio)
                           IN  /\ file' = sv.file
                               /\ unsaved' = IF wio = "ok" THEN {}
                                             ELSE unsaved \cup {entry}
                               /\ messages' = ld.msgs \o sv.msgs
                                                \o <<"Stopwatch stopped", "Duration">>
                      /\ UNCHANGED pc
        /\ UNCHANGED <<current_task_info, clock>>

(* A start that records the start time and leaves the flag as it is. *)
start_stopwatch_unflagged ==
    /\ IF ~is_task_info_valid(current_task_info)
       THEN /\ messages' = <<"Error: Task info empty">>
            /\ UNCHANGED stopwatch_start_time
       ELSE /\ stopwatch_start_time' = Some(clock)
            /\ messages' = <<"Stopwatch started">>
    /\ UNCHANGED <<current_task_info, is_stopwatch_running, last_saved_duration,
                   file, clock, pc, unsaved>>

(* 's' while stopped: the start branch of handle_stopwatch_toggle. *)
start_stopwatch ==
    /\ IF ~is_task_info_valid(current_task_info)
       THEN /\ messages' = <<"Error: Task info empty">>
            /\ UNCHANGED <<is_stopwatch_running, stopwatch_start_time>>
       ELSE /\ stopwatch_start_time' = Some(clock)
            /\ is_stopwatch_running' = TRUE
            /\ messages' = <<"Stopwatch started">>
    /\ UNCHANGED <<current_task_info, last_saved_duration, file, clock, pc,
                   unsaved>>

handle_stopwatch_toggle ==
    /\ Pressed("s")
    /\ IF is_stopwatch_running THEN stop_stopwatch ELSE start_stopwatch
    /\ UNCHANGED <<progress_vars, call_vars>>

(* 'a': add_manual_entry, the two prompts answered start_str and end_str   *)
(* (they are asked only once both guards are passed).  Everything after    *)
(* the guards runs inside try ... except ValueError ... except Exception.  *)
add_manual_entry_with(start_str, end_str) ==
    /\ Pressed("a")
    /\ IF ~is_task_info_valid(current_task_info)
       THEN /\ messages' = <<"Error: Task info empty">>
            /\ typed_times' = <<>>
            /\ UNCHANGED <<file, unsaved>>
       ELSE IF is_stopwatch_running
       THEN /\ messages' = <<"Cannot add manual task while stopwatch is running">>
            /\ typed_times' = <<>>
            /\ UNCHANGED <<file, unsaved>>
       ELSE   LET start_dt == parse_time(start_str, 1)
                  end_dt == parse_time(end_str, 1)
                  prompts == <<"Enter start and end times", "Format">>
              IN  /\ typed_times' = <<start_str, end_str>>
                  /\ IF start_dt = None \/ end_dt = None
                     THEN /\ messages' = prompts \o <<"Error: Invalid time format">>
                          /\ UNCHANGED <<file, unsaved>>
                     ELSE IF start_dt[1] >= end_dt[1]
                     THEN /\ messages' =
                               prompts \o <<"Error: Start time must be before end time">>
                          /\ UNCHANGED <<file, unsaved>>
                     ELSE LET duration == end_dt[1] - start_dt[1]
                              entry == task_entry(current_task_info,
                                                  start_dt[1] * 1000,
                                                  end_dt[1] * 1000,
                                                  duration * 1000)
                          IN  \E rio \in ReadOutcomes :
                                LET ld == load_tasks(file, rio)
                                IN  IF ld.exc # "" \/ ~ld.is_list
                                    THEN /\ messages' = prompts \o ld.msgs
                                              \o <<"An unexpected error occurred">>
                                         /\ UNCHANGED <<file, unsaved>>
                                    ELSE /\ Len(ld.tasks) + Cardinality(unsaved)
                                              < MaxRecords
                                         /\ \E wio \in WriteOutcomes :
                                              LET sv == save_tasks(file,
                                                          Append(ld.tasks, entry), wio)
                                              IN  /\ file' = sv.file
                                                  /\ unsaved' = IF wio = "ok" THEN {}
                                                                ELSE unsaved \cup {entry}
                                                  /\ messages' =
                                                       prompts \o ld.msgs \o sv.msgs
                                                       \o <<"Manual task added successfully">>
    /\ UNCHANGED <<state, clock, pc>>
    /\ UNCHANGED <<progress_vars, call_vars>>

(* No text is read when a guard refuses the entry. *)
add_manual_entry ==
    IF ~is_task_info_valid(current_task_info) \/ is_stopwatch_running
    THEN add_manual_entry_with(<<>>, <<>>)
    ELSE \E start_str \in TimeTexts, end_str \in TimeTexts :
           add_manual_entry_with(start_str, end_str)

(* A quit that does not look at the stopwatch. *)
quit_unguarded ==
    /\ Pressed("q")
    /\ messages' = <<"Quitting program">>
    /\ pc' = "exited"
    /\ UNCHANGED <<state, file, clock, unsaved>>
    /\ UNCHANGED <<progress_vars, call_vars>>

(* 'q': refused while the stopwatch runs, else the loop breaks. *)
quit ==
    /\ Pressed("q")
    /\ IF is_stopwatch_running
       THEN /\ messages' = <<"Stopwatch running. Stop it (s) before quitting">>
            /\ UNCHANGED pc
       ELSE /\ messages' = <<"Quitting program">>
            /\ pc' = "exited"
    /\ UNCHANGED <<state, file, clock, unsaved>>
    /\ UNCHANGED <<progress_vars, call_vars>>

(* An invalid command that ends the loop. *)
invalid_command_fatal ==
    /\ Pressed("x")
    /\ messages' = <<"Invalid command">>
    /\ pc' = "exited"
    /\ UNCHANGED <<state, file, clock, unsaved>>
    /\ UNCHANGED <<progress_vars, call_vars>>

(* Any other key. *)
invalid_command ==
    /\ Pressed("x")
    /\ messages' = <<"Invalid command">>
    /\ UNCHANGED <<state, file, clock, pc, unsaved>>
    /\ UNCHANGED <<progress_vars, call_vars>>

(* Outside the program: the data file is removed while the session runs    *)
(* (the FileNotFoundError load_tasks provides for).                        *)
FileRemoved ==
    /\ pc = "loop"
    /\ file.kind # "missing"
    /\ file' = [kind |-> "missing", recs |-> <<>>]
    /\ UNCHANGED <<state, clock, pc, command, messages, typed_times, unsaved>>
    /\ UNCHANGED <<progress_vars, call_vars>>

(* One iteration of the loop of run_tracker_app. *)
ToolCommand ==
    \/ Timeout
    \/ prompt_for_task_details
    \/ handle_stopwatch_toggle
    \/ add_manual_entry
    \/ quit
    \/ invalid_command

Next ==
    \/ Tick
    \/ FileRemoved
    \/ Timeout
    \/ prompt_for_task_details
    \/ handle_stopwatch_toggle
    \/ add_manual_entry
    \/ quit
    \/ invalid_command

Spec == Init /\ [][Next]_vars

----------------------------------------------------------------------------
(* The progress tracker: texts, numbers and the task hash. *)

Digits == <<"0", "1", "2", "3", "4", "5", "6", "7", "8", "9">>

HexDigits == Digits \o <<"a", "b", "c", "d", "e", "f">>

(* The value of a digit character in the given alphabet. *)
digit_value(c, alphabet) == (CHOOSE i \in DOMAIN alphabet : alphabet[i] = c) - 1

(* The modulus of generate_task_hash. *)
HashModulus == 1000000

(* int(text, base) % m for a text of digits of the base, reduced as it     *)
(* goes (the value of a digest does not fit a machine integer).            *)
RECURSIVE int_mod(_, _, _)
int_mod(text, alphabet, m) ==
    IF text = <<>> THEN 0
    ELSE (int_mod(SubSeq(text, 1, Len(text) - 1), alphabet, m) * Len(alphabet)
            + digit_value(text[Len(text)], alphabet)) % m

(* The number a text of decimal digits names. *)
RECURSIVE int_digits(_)
int_digits(ds) ==
    IF ds = <<>> THEN 0
    ELSE int_digits(SubSeq(ds, 1, Len(ds) - 1)) * 10 + digit_value(ds[Len(ds)], Digits)

(* int(text): an optional sign and one or more decimal digits (blanks      *)
(* around them are dropped); None for a ValueError.                        *)
int(text) ==
    LET t == strip(text)
        signed == t # <<>> /\ t[1] \in {"+", "-"}
        ds == IF signed THEN Tail(t) ELSE t
    IN  IF ds = <<>> \/ \E i \in DOMAIN ds : ds[i] \notin {Digits[d] : d \in DOMAIN Digits}
        THEN None
        ELSE Some(IF signed /\ t[1] = "-" THEN 0 - int_digits(ds) ELSE int_digits(ds))

(* str(n) for n >= 0: its decimal digits. *)
RECURSIVE str(_)
str(n) == IF n < 10 THEN <<Digits[n + 1]>> ELSE str(n \div 10) \o <<Digits[(n % 10) + 1]>>

(* An f"{n:06d}" that does not pad. *)
format_06d_unpadded(n) == str(n)

(* f"{n:06d}": the digits of n, zeros put before them up to six characters. *)
format_06d(n) ==
    IF Len(str(n)) >= 6 THEN str(n)
    ELSE [i \in 1..(6 - Len(str(n))) |-> "0"] \o str(n)

(* hashlib.md5(text.encode()).hexdigest(), for the texts of the model. *)
md5_hexdigest(text) ==
    CASE text = <<"a", "b", "c">> ->   \* 900150983cd24fb0d6963f7d28e17f72
           <<"9", "0", "0", "1", "5", "0", "9", "8", "3", "c", "d", "2", "4", "f", "b", "0",
             "d", "6", "9", "6", "3", "f", "7", "d", "2", "8", "e", "1", "7", "f", "7", "2">>
      [] text = <<"a", "a", "b">> ->   \* e62595ee98b585153dac87ce1ab69c3c
           <<"e", "6", "2", "5", "9", "5", "e", "e", "9", "8", "b", "5", "8", "5", "1", "5",
             "3", "d", "a", "c", "8", "7", "c", "e", "1", "a", "b", "6", "9", "c", "3", "c">>
      [] text = <<"b", "a", "d">> ->   \* bae60998ffe4923b131e3d6e4c19993e
           <<"b", "a", "e", "6", "0", "9", "9", "8", "f", "f", "e", "4", "9", "2", "3", "b",
             "1", "3", "1", "e", "3", "d", "6", "e", "4", "c", "1", "9", "9", "9", "3", "e">>
      [] text = <<"a", "b", "c", "d">> ->   \* e2fc714c4727ee9395f324cd2e7f331f
           <<"e", "2", "f", "c", "7", "1", "4", "c", "4", "7", "2", "7", "e", "e", "9", "3",
             "9", "5", "f", "3", "2", "4", "c", "d", "2", "e", "7", "f", "3", "3", "1", "f">>

(* generate_task_hash. *)
generate_task_hash(task_type, task_tag, task_name) ==
    LET combined_string == task_type \o task_tag \o task_name
        hex_digest == md5_hexdigest(combined_string)
        numeric_hash == int_mod(hex_digest, HexDigits, HashModulus)
    IN  format_06d(numeric_hash)

----------------------------------------------------------------------------
(* The progress tracker: its store and its session. *)

(* Bound of the model: the tasks the list can hold. *)
MaxTasks == 2

(* A display_message of progress.py: its text and the value it quotes. *)
message(text, arg) == [text |-> text, arg |-> arg]

(* The answers typed to the four prompts of an insert: two tasks whose     *)
(* fields concatenate to the same text, a task typed with blanks and a     *)
(* sign, the same task typed plainly, and answers that are refused.        *)
TypedTasks ==
    { << <<"a">>, <<"b", "c">>, <<"d">>, <<"2">> >>,
      << <<"a", "b">>, <<"c">>, <<"d">>, <<"2">> >>,
      << <<" ", "a">>, <<"a", " ">>, <<"b">>, <<" ", "+", "1">> >>,
      << <<"a">>, <<"a">>, <<"b">>, <<"1">> >>,
      << <<"a">>, <<" ">>, <<"b">>, <<"2">> >>,
      << <<"a">>, <<"a">>, <<"b">>, <<>> >>,
      << <<"a">>, <<"a">>, <<"b">>, <<"0">> >>,
      << <<"a">>, <<"a">>, <<"b">>, <<"-", "1">> >>,
      << <<"a">>, <<"a">>, <<"b">>, <<"x">> >> }

(* The texts typed for a hash: none, prefixes of one hash and of two, a    *)
(* prefix of no hash, a hash with one character more.                      *)
TypedHashes ==
    { <<>>,
      <<"7">>,
      <<"7", "6", "2">>,
      <<" ", "7", "6", "1", " ">>,
      <<"8">>,
      <<"7", "6", "2", "3", "3", "5", "0">> }

(* The answers typed to the two prompts of a change of progress. *)
TypedChanges ==
    { << <<"7", "6", "2">>, <<"+", "1">> >>,
      << <<"7", "6", "2">>, <<"-", "1">> >>,
      << <<"7", "6", "2">>, <<"5">> >>,
      << <<" ", "7", "6", "1", " ">>, <<" ", "1", " ">> >>,
      << <<" ", "7", "6", "1", " ">>, <<"-", "5">> >>,
      << <<"7">>, <<"+", "1">> >>,
      << <<"7">>, <<"x">> >>,
      << <<"7">>, <<>> >>,
      << <<>>, <<"+", "1">> >>,
      << <<"8">>, <<"-", "1">> >>,
      << <<"7", "6", "2", "3", "3", "5", "0">>, <<"+", "1">> >> }

(* load_tasks of progress.py: as that of capture.py. *)
progress_load_tasks(f, io) ==
    IF f.kind = "missing"
    THEN [exc |-> "", is_list |-> TRUE, tasks |-> <<>>, msgs |-> <<>>]
    ELSE IF io = "OSError"
    THEN [exc |-> "OSError", is_list |-> FALSE, tasks |-> <<>>, msgs |-> <<>>]
    ELSE IF f.kind = "malformed"
    THEN [exc |-> "", is_list |-> TRUE, tasks |-> <<>>,
          msgs |-> <<message("Error loading YAML", <<>>)>>]
    ELSE IF f.kind = "nonlist"
    THEN [exc |-> "", is_list |-> FALSE, tasks |-> <<>>, msgs |-> <<>>]
    ELSE [exc |-> "", is_list |-> TRUE, tasks |-> f.recs, msgs |-> <<>>]

(* A save_tasks that writes nothing. *)
progress_save_tasks_skipped(f, tasks, io) == [file |-> f, msgs |-> <<>>]

(* save_tasks of progress.py: as that of capture.py. *)
progress_save_tasks(f, tasks, io) ==
    CASE io = "ok" ->
           [file |-> [kind |-> "list", recs |-> tasks], msgs |-> <<>>]
      [] io = "open fails" ->
           [file |-> f, msgs |-> <<message("Error saving tasks", <<>>)>>]
      [] io = "write fails empty" ->
           [file |-> [kind |-> "list", recs |-> <<>>],
            msgs |-> <<message("Error saving tasks", <<>>)>>]
      [] OTHER ->
           [file |-> [kind |-> "malformed", recs |-> <<>>],
            msgs |-> <<message("Error saving tasks", <<>>)>>]

(* A startswith that asks for the whole text. *)
startswith_whole(text, prefix) == text = prefix

(* str.startswith. *)
startswith(text, prefix) ==
    Len(prefix) <= Len(text) /\ SubSeq(text, 1, Len(prefix)) = prefix

(* A find_task_by_hash_prefix that returns the first match whatever the   *)
(* number of matches.                                                      *)
find_task_by_hash_prefix_first(tasks, hash_prefix) ==
    LET matches == SelectSeq(tasks, LAMBDA task : startswith(task.hash, hash_prefix))
    IN  IF Len(matches) >= 1
        THEN [kind |-> "task", task |-> <<matches[1]>>, matches |-> <<>>]
        ELSE [kind |-> "None", task |-> <<>>, matches |-> <<>>]

(* find_task_by_hash_prefix: the one match (kind "task"), the list of the  *)
(* matches (kind "list") or None.                                          *)
find_task_by_hash_prefix(tasks, hash_prefix) ==
    LET matches == SelectSeq(tasks, LAMBDA task : startswith(task.hash, hash_prefix))
    IN  IF Len(matches) = 1
        THEN [kind |-> "task", task |-> <<matches[1]>>, matches |-> <<>>]
        ELSE IF Len(matches) > 1
        THEN [kind |-> "list", task |-> <<>>, matches |-> matches]
        ELSE [kind |-> "None", task |-> <<>>, matches |-> <<>>]

(* progress-data.yaml as found at start: absent, an empty list, a list     *)
(* with a task, text that is no YAML, YAML that is no list.                *)
ProgressFilesAtStart ==
    { [kind |-> k, recs |-> <<>>] : k \in {"missing", "list", "malformed", "nonlist"} }
    \cup
    { [kind |-> "list",
       recs |-> << [hash |-> <<"7", "6", "1", "0", "8", "4">>,
                    type |-> <<"a">>, tag |-> <<"a">>, name |-> <<"b">>,
                    total_digit |-> 1, current_progress |-> 1] >>] }

(* __main__ and the start of run_tracker_app: the file is created if it    *)
(* is absent, then loaded once.  An exception of load_tasks, or a value    *)
(* that is no list of tasks, ends the program.                             *)
ProgressInit ==
    /\ \E f \in ProgressFilesAtStart, rio \in ReadOutcomes :
         LET ld == progress_load_tasks(ensure_data_file_exists(f), rio)
         IN  /\ data_file = ensure_data_file_exists(f)
             /\ app_tasks = ld.tasks
             /\ progress_messages = ld.msgs
             /\ progress_pc = IF ld.exc # "" \/ ~ld.is_list THEN "crashed" ELSE "loop"
    /\ progress_command = ""
    /\ progress_typed = <<>>
    /\ current_task_info = [type |-> <<>>, tag |-> <<>>, name |-> <<>>]
    /\ is_stopwatch_running = FALSE
    /\ stopwatch_start_time = None
    /\ last_saved_duration = None
    /\ file = [kind |-> "missing", recs |-> <<>>]
    /\ clock = 0
    /\ pc = "off"
    /\ command = ""
    /\ messages = <<>>
    /\ typed_times = <<>>
    /\ unsaved = {}
    /\ NoCall

(* getch() returns -1: no command this iteration. *)
progress_timeout ==
    /\ progress_pc = "loop"
    /\ progress_command' = ""
    /\ progress_messages' = <<>>
    /\ progress_typed' = <<>>
    /\ UNCHANGED <<app_tasks, data_file, progress_pc>>
    /\ UNCHANGED <<capture_vars, call_vars>>

(* The loop read a key and lowered it to command c. *)
progress_pressed(c) ==
    /\ progress_pc = "loop"
    /\ progress_command' = c

(* A test for the hash that never finds it. *)
hash_exists_never(tasks, new_hash) == FALSE

(* The loop of handle_insert_task over the list: some task has the hash. *)
hash_exists(tasks, new_hash) == \E i \in DOMAIN tasks : tasks[i].hash = new_hash

(* A new task that starts complete. *)
new_task_complete(new_hash, task_type, task_tag, task_name, total_digit) ==
    [hash |-> new_hash, type |-> task_type, tag |-> task_tag, name |-> task_name,
     total_digit |-> total_digit, current_progress |-> total_digit]

(* The new_task of handle_insert_task. *)
new_task(new_hash, task_type, task_tag, task_name, total_digit) ==
    [hash |-> new_hash, type |-> task_type, tag |-> task_tag, name |-> task_name,
     total_digit |-> total_digit, current_progress |-> 0]

(* 'i': handle_insert_task, its four prompts answered typed. *)
handle_insert_task_with(typed) ==
    LET task_type == strip(typed[1])
        task_tag == strip(typed[2])
        task_name == strip(typed[3])
        task_digit_str == strip(typed[4])
        total_digit == int(task_digit_str)
    IN  /\ progress_pressed("i")
        /\ progress_typed' = typed
        /\ IF task_type = <<>> \/ task_tag = <<>> \/ task_name = <<>>
              \/ task_digit_str = <<>>
           THEN /\ progress_messages' =
                     <<message("Error: All task fields must be filled", <<>>)>>
                /\ UNCHANGED <<app_tasks, data_file>>
           ELSE IF total_digit = None
           THEN /\ progress_messages' =
                     <<message("Error: Total Digit must be an integer", <<>>)>>
                /\ UNCHANGED <<app_tasks, data_file>>
           ELSE IF total_digit[1] <= 0
           THEN /\ progress_messages' =
                     <<message("Error: Total Digit must be a positive integer", <<>>)>>
                /\ UNCHANGED <<app_tasks, data_file>>
           ELSE LET new_hash == generate_task_hash(task_type, task_tag, task_name)
                IN  IF hash_exists(app_tasks, new_hash)
                    THEN /\ progress_messages' =
                              <<message("Warning: A task with identical details already exists",
                                        new_hash)>>
                         /\ UNCHANGED <<app_tasks, data_file>>
                    ELSE /\ Len(app_tasks) < MaxTasks
                         /\ app_tasks' = Append(app_tasks,
                                new_task(new_hash, task_type, task_tag, task_name,
                                         total_digit[1]))
                         /\ \E wio \in WriteOutcomes :
                              LET sv == progress_save_tasks(data_file, app_tasks', wio)
                              IN  /\ data_file' = sv.file
                                  /\ progress_messages' =
                                       sv.msgs \o <<message("Task added with hash", new_hash)>>
        /\ UNCHANGED progress_pc
        /\ UNCHANGED <<capture_vars, call_vars>>

handle_insert_task == \E typed \in TypedTasks : handle_insert_task_with(typed)

(* A change of progress that is dropped when it leaves the range. *)
changed_progress_or_kept(current_progress, change_amount, total_digit) ==
    IF current_progress + change_amount < 0
       \/ current_progress + change_amount > total_digit
    THEN current_progress
    ELSE current_progress + change_amount

(* A change of progress without the two tests. *)
changed_progress_unclamped(current_progress, change_amount, total_digit) ==
    current_progress + change_amount

(* The new current_progress of handle_add_progress: the change is added,   *)
(* then a value below 0 becomes 0, then one above the total the total.     *)
changed_progress(current_progress, change_amount, total_digit) ==
    LET added == current_progress + change_amount
        raised == IF added < 0 THEN 0 ELSE added
    IN  IF raised > total_digit THEN total_digit ELSE raised

(* 'a': handle_add_progress, its two prompts answered typed. *)
handle_add_progress_with(typed) ==
    LET hash_input == strip(typed[1])
        change_str == strip(typed[2])
        matched_task == find_task_by_hash_prefix(app_tasks, hash_input)
        change_amount == int(change_str)
    IN  /\ progress_pressed("a")
        /\ progress_typed' = typed
        /\ IF hash_input = <<>> \/ change_str = <<>>
           THEN /\ progress_messages' =
                     <<message("Error: Hash and change value cannot be empty", <<>>)>>
                /\ UNCHANGED <<app_tasks, data_file>>
           ELSE IF matched_task.kind = "None"
           THEN /\ progress_messages' = <<message("No task found for hash", hash_input)>>
                /\ UNCHANGED <<app_tasks, data_file>>
           ELSE IF matched_task.kind = "list"
           THEN /\ progress_messages' = <<message("Ambiguous hash", hash_input)>>
                /\ UNCHANGED <<app_tasks, data_file>>
           ELSE IF change_amount = None
           THEN /\ progress_messages' =
                     <<message("Error: Change amount must be an integer", <<>>)>>
                /\ UNCHANGED <<app_tasks, data_file>>
           ELSE LET task == matched_task.task[1]
                IN  /\ app_tasks' =
                         [i \in DOMAIN app_tasks |->
                            IF app_tasks[i] = task
                            THEN [task EXCEPT !.current_progress =
                                    changed_progress(task.current_progress,
                                                     change_amount[1],
                                                     task.total_digit)]
                            ELSE app_tasks[i]]
                    /\ \E wio \in WriteOutcomes :
                         LET sv == progress_save_tasks(data_file, app_tasks', wio)
                         IN  /\ data_file' = sv.file
                             /\ progress_messages' =
                                  sv.msgs \o <<message("Progress updated", task.hash)>>
        /\ UNCHANGED progress_pc
        /\ UNCHANGED <<capture_vars, call_vars>>

handle_add_progress == \E typed \in TypedChanges : handle_add_progress_with(typed)

(* A removal that drops the first task of the list. *)
without_first(tasks, hash) == Tail(tasks)

(* The list rebuilt by handle_delete_task: the tasks with another hash. *)
without_hash(tasks, hash) == SelectSeq(tasks, LAMBDA t : t.hash # hash)

(* 'd': handle_delete_task, its prompt answered typed. *)
handle_delete_task_with(typed) ==
    LET hash_input == strip(typed[1])
        matched_task == find_task_by_hash_prefix(app_tasks, hash_input)
    IN  /\ progress_pressed("d")
        /\ progress_typed' = typed
        /\ IF hash_input = <<>>
           THEN /\ progress_messages' = <<message("Error: Hash cannot be empty", <<>>)>>
                /\ UNCHANGED <<app_tasks, data_file>>
           ELSE IF matched_task.kind = "None"
           THEN /\ progress_messages' = <<message("No task found for hash", hash_input)>>
                /\ UNCHANGED <<app_tasks, data_file>>
           ELSE IF matched_task.kind = "list"
           THEN /\ progress_messages' = <<message("Ambiguous hash", hash_input)>>
                /\ UNCHANGED <<app_tasks, data_file>>
           ELSE LET task == matched_task.task[1]
                IN  /\ app_tasks' = without_hash(app_tasks, task.hash)
                    /\ \E wio \in WriteOutcomes :
                         LET sv == progress_save_tasks(data_file, app_tasks', wio)
                         IN  /\ data_file' = sv.file
                             /\ progress_messages' =
                                  sv.msgs \o <<message("Task deleted", task.hash)>>
        /\ UNCHANGED progress_pc
        /\ UNCHANGED <<capture_vars, call_vars>>

handle_delete_task == \E typed_hash \in TypedHashes : handle_delete_task_with(<<typed_hash>>)

(* 'q': the loop breaks. *)
progress_quit ==
    /\ progress_pressed("q")
    /\ progress_typed' = <<>>
    /\ progress_messages' = <<message("Quitting program", <<>>)>>
    /\ progress_pc' = "exited"
    /\ UNCHANGED <<app_tasks, data_file>>
    /\ UNCHANGED <<capture_vars, call_vars>>

(* Any other key. *)
progress_invalid_command ==
    /\ \E k \in Keys : lower(k) \notin {"i", "a", "d", "q"} /\ progress_pressed(lower(k))
    /\ progress_typed' = <<>>
    /\ progress_messages' = <<message("Invalid command", <<>>)>>
    /\ UNCHANGED <<app_tasks, data_file, progress_pc>>
    /\ UNCHANGED <<capture_vars, call_vars>>

(* One iteration of the loop of run_tracker_app of progress.py. *)
ProgressNext ==
    \/ progress_timeout
    \/ handle_insert_task
    \/ handle_add_progress
    \/ handle_delete_task
    \/ progress_quit
    \/ progress_invalid_command

ProgressSpec == ProgressInit /\ [][ProgressNext]_vars

----------------------------------------------------------------------------
(* The progress tracker: the progress bar, and the pure functions called   *)
(* on their own.                                                           *)

(* Bounds of the model: the largest total of a bar, the tasks of a list    *)
(* that is looked up, the calls that are remembered.                       *)
MaxTotal == 12

MaxLookupTasks == 3

MaxCalls == 2

(* A bar_length without the minimum of 10. *)
bar_length_unfloored(display_width) == display_width - 25

(* bar_length of draw_progress_bar: the width less fixed_text_space, 10 at  *)
(* least.                                                                  *)
bar_length(display_width) ==
    IF display_width - 25 < 10 THEN 10 ELSE display_width - 25

(* The (bar_length, current, total) of the model, total up to 13, for      *)
(* which bar_length * ((current / total) * 100) / 100, evaluated in        *)
(* doubles as Python evaluates it, falls just below the whole number       *)
(* bar_length * current / total.                                           *)
RoundedBelow ==
    { <<11, 3, 11>>, <<11, 6, 11>>,
      <<12, 1, 3>>, <<12, 1, 6>>, <<12, 1, 12>>, <<12, 2, 3>>, <<12, 2, 6>>,
      <<12, 2, 12>>, <<12, 3, 9>>, <<12, 4, 6>>, <<12, 4, 12>>, <<12, 6, 9>>,
      <<12, 8, 12>>,
      <<15, 1, 3>>, <<15, 2, 3>>, <<15, 2, 6>>, <<15, 3, 9>>, <<15, 4, 6>>,
      <<15, 4, 12>>, <<15, 6, 9>>, <<15, 8, 12>> }

(* filled_length of draw_progress_bar:                                     *)
(* math.floor(bar_length * percentage / 100), percentage the double        *)
(* (current / total) * 100, or 0 for a total of 0.                         *)
filled_length(length, current, total) ==
    IF total = 0 THEN 0
    ELSE IF <<length, current, total>> \in RoundedBelow
    THEN ((length * current) \div total) - 1
    ELSE (length * current) \div total

(* f"{percentage:.0f}": the percentage rounded to the nearest whole        *)
(* number, a half to the even one.                                         *)
format_0f(current, total) ==
    IF total = 0 THEN str(0)
    ELSE LET whole == (100 * current) \div total
             rest == (100 * current) % total
         IN  IF 2 * rest > total \/ (2 * rest = total /\ whole % 2 = 1)
             THEN str(whole + 1)
             ELSE str(whole)

(* char * n. *)
repeat(char, n) == [i \in 1..n |-> char]

(* text[:n], n >= 0. *)
slice_to(text, n) == SubSeq(text, 1, IF n < Len(text) THEN n ELSE Len(text))

(* draw_progress_bar. *)
draw_progress_bar(current, total, display_width) ==
    LET length == bar_length(display_width)
        filled == filled_length(length, current, total)
        filled_bar == repeat("=", filled) \o (IF filled < length THEN <<">">> ELSE <<>>)
        cut_bar == slice_to(filled_bar, length)
        bar == cut_bar \o repeat("-", length - Len(cut_bar))
        progress_text == str(current) \o <<"/">> \o str(total) \o <<" ", "(">>
                           \o format_0f(current, total) \o <<"%", ")">>
        display_str == <<"[">> \o bar \o <<"]", " ">> \o progress_text
    IN  slice_to(display_str, display_width)

(* The widths a bar is drawn for: narrower than the bar, narrower than the *)
(* text, and wide enough for both with bars of 10, 11, 12 and 15.          *)
Widths == {1, 8, 14, 30, 36, 37, 40}

(* The triples generate_task_hash is called with. *)
HashArguments ==
    { << <<"a">>, <<"b">>, <<"c">> >>,
      << <<"a">>, <<"a">>, <<"b">> >>,
      << <<"b">>, <<"a">>, <<"d">> >>,
      << <<"a">>, <<"b", "c">>, <<"d">> >>,
      << <<"a", "b">>, <<"c">>, <<"d">> >>,
      << <<"a", "b", "c">>, <<>>, <<>> >> }

(* The tasks of the lists find_task_by_hash_prefix is called with. *)
LookupTasks ==
    { new_task(h, <<"t">>, <<"g">>, <<"n">>, 1) :
        h \in { <<"7", "6", "2", "3", "3", "5">>, <<"7", "6", "1", "0", "8", "4">>,
                <<"0", "5", "4", "2", "0", "6">>, <<"8", "0", "3", "5", "7", "0">> } }

(* The lists find_task_by_hash_prefix is called with: the tasks above, no  *)
(* task twice, in every order.                                             *)
LookupLists ==
    { tasks \in UNION { [1..n -> LookupTasks] : n \in 0..MaxLookupTasks } :
        \A i, j \in DOMAIN tasks : i # j => tasks[i] # tasks[j] }

(* The prefixes find_task_by_hash_prefix is called with. *)
LookupPrefixes ==
    { <<>>, <<"7">>, <<"7", "6">>, <<"7", "6", "2">>,
      <<"7", "6", "2", "3", "3", "5">>, <<"7", "6", "2", "3", "3", "5", "0">>,
      <<"0">>, <<"9">> }

(* No program runs: the functions are called on their own. *)
PureInit ==
    /\ current_task_info = [type |-> <<>>, tag |-> <<>>, name |-> <<>>]
    /\ is_stopwatch_running = FALSE
    /\ stopwatch_start_time = None
    /\ last_saved_duration = None
    /\ file = [kind |-> "missing", recs |-> <<>>]
    /\ clock = 0
    /\ pc = "off"
    /\ command = ""
    /\ messages = <<>>
    /\ typed_times = <<>>
    /\ unsaved = {}
    /\ ProgressOff
    /\ NoCall

(* A call of generate_task_hash, after the calls made before. *)
call_generate_task_hash ==
    /\ Len(call) < MaxCalls
    /\ \E args \in HashArguments :
         /\ call' = Append(call, [fn |-> "generate_task_hash", args |-> args])
         /\ result' = Append(result, generate_task_hash(args[1], args[2], args[3]))
    /\ UNCHANGED <<capture_vars, progress_vars>>

(* A call of find_task_by_hash_prefix, the first call made. *)
call_find_task_by_hash_prefix ==
    /\ call = <<>>
    /\ \E tasks \in LookupLists, hash_prefix \in LookupPrefixes :
         /\ call' = <<[fn |-> "find_task_by_hash_prefix",
                       args |-> <<tasks, hash_prefix>>]>>
         /\ result' = <<find_task_by_hash_prefix(tasks, hash_prefix)>>
    /\ UNCHANGED <<capture_vars, progress_vars>>

(* A call of draw_progress_bar, the first call made. *)
call_draw_progress_bar ==
    /\ call = <<>>
    /\ \E total \in 0..MaxTotal, display_width \in Widths :
         \E current \in 0..total :
           /\ call' = <<[fn |-> "draw_progress_bar",
                         args |-> <<current, total, display_width>>]>>
           /\ result' = <<draw_progress_bar(current, total, display_width)>>
    /\ UNCHANGED <<capture_vars, progress_vars>>

PureNext ==
    \/ call_generate_task_hash
    \/ call_find_task_by_hash_prefix
    \/ call_draw_progress_bar

PureSpec == PureInit /\ [][PureNext]_vars

----------------------------------------------------------------------------
(* The properties.  They name the expected values on their own (never      *)
(* through the operators above), so that they say something about them.    *)

Shown(msgs, m) == \E i \in DOMAIN msgs : msgs[i] = m

Range(seq) == { seq[i] : i \in DOMAIN seq }

Last(seq) == seq[Len(seq)]

EmptyDescriptor ==
    current_task_info = [type |-> <<>>, tag |-> <<>>, name |-> <<>>]

(* The command just handled reached save_tasks and it succeeded. *)
Saved(msgs) ==
    /\ \/ Shown(msgs, "Stopwatch stopped")
       \/ Shown(msgs, "Manual task added successfully")
    /\ ~Shown(msgs, "Error saving tasks")

(* The instant a typed timestamp names, in seconds since day 0 (-1: the    *)
(* text is no timestamp): 09:00:00 is 32400 s, 10:30 is 37800 s.           *)
Instant(text) ==
    CASE text = <<0, 9, 0, 0>> -> 32400
      [] text = <<0, 10, 30>> -> 37800
      [] OTHER -> -1

GoodPair(s, e) == Instant(s) >= 0 /\ Instant(e) >= 0 /\ Instant(s) < Instant(e)

(* r is the record a stop in the current state must emit: the current      *)
(* descriptor, end = now and start = now - duration at the millisecond of  *)
(* the timestamps, duration = now - start_time to the nearest millisecond. *)
IsStopRecord(r) ==
    LET now == clock
        d == now - stopwatch_start_time[1]
    IN  /\ r.type = current_task_info.type
        /\ r.tag = current_task_info.tag
        /\ r.name = current_task_info.name
        /\ r.end * TicksPerMs <= now
        /\ now < (r.end + 1) * TicksPerMs
        /\ r.start * TicksPerMs <= now - d
        /\ now - d < (r.start + 1) * TicksPerMs
        /\ 2 * (r.duration * TicksPerMs - d) <= TicksPerMs
        /\ 2 * (d - r.duration * TicksPerMs) <= TicksPerMs

(* C1: every record in the store, from a stop or from a manual entry, has  *)
(* end > start and duration = end - start >= 0, also when the stop read    *)
(* the same clock value as the start.                                      *)
C1_RecordsWellFormed ==
    \A i \in DOMAIN persisted :
        /\ persisted[i].end > persisted[i].start
        /\ persisted[i].duration = persisted[i].end - persisted[i].start
        /\ persisted[i].duration >= 0

(* C2, as stated: 's' while the stopwatch runs, or while the descriptor is *)
(* invalid, changes neither the session nor the store and shows an error.  *)
C2_StartIsNoOp ==
    [][ (handle_stopwatch_toggle /\ (is_stopwatch_running \/ EmptyDescriptor))
          => /\ UNCHANGED <<state, file>>
             /\ \/ Shown(messages', "Error: Task info empty")
                \/ Shown(messages', "Cannot start")
      ]_vars

(* C2, amended: 's' while stopped with an invalid descriptor changes       *)
(* neither the session nor the store and shows the error; while the        *)
(* stopwatch runs 's' is the stop command (it ends the run), and no        *)
(* command replaces the start time of a run in progress.                   *)
C2_InvalidStartIsNoOp ==
    [][ /\ (handle_stopwatch_toggle /\ ~is_stopwatch_running /\ EmptyDescriptor)
            => /\ UNCHANGED <<state, file>>
               /\ messages' = <<"Error: Task info empty">>
        /\ (handle_stopwatch_toggle /\ is_stopwatch_running)
            => ~is_stopwatch_running'
        /\ (is_stopwatch_running /\ is_stopwatch_running')
            => stopwatch_start_time' = stopwatch_start_time
      ]_vars

C2_Witness ==
    /\ command = "s"
    /\ messages = <<"Error: Task info empty">>
    /\ ~is_stopwatch_running
    /\ EmptyDescriptor
    /\ persisted # <<>>

(* C3, as stated: 's' while running stops the session, clears start_time,  *)
(* sets last_duration = now - start_time and appends the stop record as    *)
(* the last element of the persisted list.                                 *)
C3_StopAppends ==
    [][ (handle_stopwatch_toggle /\ is_stopwatch_running)
          => /\ ~is_stopwatch_running'
             /\ stopwatch_start_time' = None
             /\ last_saved_duration' = Some(clock - stopwatch_start_time[1])
             /\ current_task_info' = current_task_info
             /\ Len(persisted') = Len(persisted) + 1
             /\ IsPrefix(persisted, persisted')
             /\ IsStopRecord(Last(persisted'))
      ]_vars

(* C3, amended: 's' while running always stops the session, clears         *)
(* start_time and sets last_duration = now - start_time; the stop record   *)
(* is appended as the last element of the persisted list when load_tasks   *)
(* and save_tasks succeed; when load_tasks raises (the session ends) or    *)
(* save_tasks fails, no record is added.                                   *)
C3_StopAppendsWhenStored ==
    [][ (handle_stopwatch_toggle /\ is_stopwatch_running)
          => /\ ~is_stopwatch_running'
             /\ stopwatch_start_time' = None
             /\ last_saved_duration' = Some(clock - stopwatch_start_time[1])
             /\ current_task_info' = current_task_info
             /\ IF pc' = "loop" /\ Saved(messages')
                THEN /\ Len(persisted') = Len(persisted) + 1
                     /\ IsPrefix(persisted, persisted')
                     /\ IsStopRecord(Last(persisted'))
                ELSE persisted' \in {persisted, <<>>}
      ]_vars

C3_Witness ==
    /\ command = "s"
    /\ Saved(messages)
    /\ Len(persisted) = 2
    /\ last_saved_duration = Some(2)
    /\ Last(persisted).duration = 1
    /\ Last(persisted).end = Last(persisted).start

(* C4, as stated: after every command of the loop the persisted list has   *)
(* the list before the command as a prefix.                                *)
C4_AppendOnly ==
    [][ ToolCommand => IsPrefix(persisted, persisted') ]_vars

(* C4, amended: the same for every command whose save_tasks does not fail; *)
(* a save that fails leaves the list as it was or, the file being          *)
(* truncated by open() before the write, empty.  Only 's' and 'a' write.   *)
C4_AppendOnlyUnlessSaveFails ==
    [][ ToolCommand
          => /\ IF Shown(messages', "Error saving tasks")
                THEN persisted' \in {persisted, <<>>}
                ELSE IsPrefix(persisted, persisted')
             /\ command' \notin {"s", "a"} => file' = file
      ]_vars

C4_Witness ==
    /\ command \in {"s", "a"}
    /\ Saved(messages)
    /\ Len(persisted) = 2

(* C5: after a command whose save succeeds, the store holds every record   *)
(* whose save failed earlier (the retry is implicit).                      *)
C5_RetryOnNextSave ==
    [][ (ToolCommand /\ pc' = "loop" /\ Saved(messages'))
          => \A r \in unsaved : r \in Range(persisted')
      ]_vars

(* C6: no state of the store file ends the session: load_tasks never       *)
(* raises and the loop goes on.                                            *)
C6_NeverFatal == pc # "crashed"

(* C7: 'i' while running is refused and changes nothing of the session;    *)
(* the descriptor changes only while stopped.                              *)
C7_EditOnlyWhenStopped ==
    [][ /\ (prompt_for_task_details /\ is_stopwatch_running)
            => /\ UNCHANGED <<state, file>>
               /\ messages' = <<"Cannot input new task while stopwatch is running">>
        /\ current_task_info' # current_task_info
            => (~is_stopwatch_running /\ ~is_stopwatch_running')
      ]_vars

C7_Witness ==
    /\ command = "i"
    /\ is_stopwatch_running
    /\ messages = <<"Cannot input new task while stopwatch is running">>

(* C8: 'q' while running leaves the session running with its start_time    *)
(* and the loop goes on; whenever the loop has ended the stopwatch is      *)
(* stopped, and a break of the loop comes from 'q' in a stopped session.   *)
C8_QuitBlockedWhileRunning ==
    [][ /\ (quit /\ is_stopwatch_running)
            => /\ UNCHANGED <<state, file>>
               /\ pc' = "loop"
        /\ (pc = "loop" /\ pc' = "exited")
            => (command' = "q" /\ ~is_stopwatch_running /\ UNCHANGED <<state, file>>)
        /\ pc' # "loop"
            => (~is_stopwatch_running' /\ stopwatch_start_time' = None)
      ]_vars

C8_Witness ==
    /\ command = "q"
    /\ is_stopwatch_running
    /\ stopwatch_start_time # None
    /\ pc = "loop"
    /\ messages = <<"Stopwatch running. Stop it (s) before quitting">>

(* A step of add_manual_entry, its prompts answered as typed_times tells   *)
(* (no text was typed if a guard refused the entry).                       *)
ManualEntryStep ==
    IF typed_times' = <<>>
    THEN add_manual_entry_with(<<>>, <<>>)
    ELSE add_manual_entry_with(typed_times'[1], typed_times'[2])

(* The messages with which add_manual_entry refuses an entry. *)
ManualEntryRefused(msgs) ==
    \/ Shown(msgs, "Error: Task info empty")
    \/ Shown(msgs, "Cannot add manual task while stopwatch is running")
    \/ Shown(msgs, "Error: Invalid time format")
    \/ Shown(msgs, "Error: Start time must be before end time")

(* C9: a manual entry whose timestamps are not both well formed, or whose  *)
(* start is not before its end, shows an input error and changes neither   *)
(* the session nor the store; one that succeeds appends exactly one record *)
(* with duration = end - start (09:00 to 10:30: 5400 s).                   *)
C9_ManualEntry ==
    [][ (ManualEntryStep /\ ~is_stopwatch_running /\ ~EmptyDescriptor)
          => /\ Len(typed_times') = 2
             /\ LET s == typed_times'[1]
                    e == typed_times'[2]
                IN  /\ UNCHANGED state
                    /\ (Instant(s) < 0 \/ Instant(e) < 0)
                         => /\ Shown(messages', "Error: Invalid time format")
                            /\ file' = file
                    /\ (Instant(s) >= 0 /\ Instant(e) >= 0 /\ Instant(s) >= Instant(e))
                         => /\ Shown(messages', "Error: Start time must be before end time")
                            /\ file' = file
                    /\ GoodPair(s, e)
                         => /\ ~ManualEntryRefused(messages')
                            /\ IF Saved(messages')
                               THEN persisted' = Append(persisted,
                                      [type |-> current_task_info.type,
                                       tag |-> current_task_info.tag,
                                       name |-> current_task_info.name,
                                       start |-> Instant(s) * 1000,
                                       end |-> Instant(e) * 1000,
                                       duration |-> (Instant(e) - Instant(s)) * 1000])
                               ELSE persisted' \in {persisted, <<>>}
      ]_vars

C9_Witness ==
    /\ command = "a"
    /\ typed_times = << <<0, 10, 30>>, <<0, 10, 30>> >>
    /\ Shown(messages, "Error: Start time must be before end time")
    /\ Len(persisted) = 1
    /\ persisted[1].duration = 5400 * 1000

(* C10, as stated: while running a manual entry is refused and changes     *)
(* nothing; while stopped it is accepted or not by its two timestamps      *)
(* alone, and it leaves the stopwatch fields as they were.                 *)
C10_AcceptanceByTimestampsAlone ==
    [][ ManualEntryStep
          => /\ UNCHANGED state
             /\ is_stopwatch_running
                  => (ManualEntryRefused(messages') /\ file' = file)
             /\ ~is_stopwatch_running
                  => /\ Len(typed_times') = 2
                     /\ ~ManualEntryRefused(messages')
                          <=> GoodPair(typed_times'[1], typed_times'[2])
      ]_vars

(* C10, amended: while stopped a manual entry is refused before any        *)
(* timestamp is asked for when the descriptor is invalid (every field      *)
(* empty); with a valid descriptor it is accepted or not by its two        *)
(* timestamps alone.  The rest as stated.                                  *)
C10_AcceptanceByDescriptorAndTimestamps ==
    [][ ManualEntryStep
          => /\ UNCHANGED state
             /\ is_stopwatch_running
                  => (ManualEntryRefused(messages') /\ file' = file)
             /\ (~is_stopwatch_running /\ EmptyDescriptor)
                  => /\ messages' = <<"Error: Task info empty">>
                     /\ typed_times' = <<>>
                     /\ file' = file
             /\ (~is_stopwatch_running /\ ~EmptyDescriptor)
                  => /\ Len(typed_times') = 2
                     /\ ~ManualEntryRefused(messages')
                          <=> GoodPair(typed_times'[1], typed_times'[2])
      ]_vars

C10_Witness ==
    /\ command = "a"
    /\ ~is_stopwatch_running
    /\ EmptyDescriptor
    /\ messages = <<"Error: Task info empty">>
    /\ last_saved_duration # None

----------------------------------------------------------------------------
(* The properties of the progress tracker.                                 *)

(* Some message of msgs has the text. *)
ProgressShown(msgs, text) == \E i \in DOMAIN msgs : msgs[i].text = text

(* The file that holds exactly the list. *)
Stored(tasks) == [kind |-> "list", recs |-> tasks]

(* No two tasks of the list have the same hash. *)
NoSharedHash(tasks) ==
    \A i, j \in DOMAIN tasks : i # j => tasks[i].hash # tasks[j].hash

(* The tasks of the list whose hash starts with the prefix, as positions. *)
Matching(tasks, prefix) == { i \in DOMAIN tasks : IsPrefix(prefix, tasks[i].hash) }

(* x brought into lo..hi. *)
Clamp(x, lo, hi) == IF x < lo THEN lo ELSE IF x > hi THEN hi ELSE x

(* The step is an insert command; its four answers are progress_typed'. *)
InsertStep == progress_pc = "loop" /\ progress_command' = "i"

(* The four answers of the insert, stripped. *)
InsertFields ==
    [type |-> strip(progress_typed'[1]), tag |-> strip(progress_typed'[2]),
     name |-> strip(progress_typed'[3]), total |-> strip(progress_typed'[4])]

(* No answer of the insert is empty. *)
FieldsFilled ==
    /\ InsertFields.type # <<>>
    /\ InsertFields.tag # <<>>
    /\ InsertFields.name # <<>>
    /\ InsertFields.total # <<>>

(* The total of the insert parses as an integer above 0. *)
TotalPositive == int(InsertFields.total) # None /\ int(InsertFields.total)[1] > 0

(* The hash derived from the answers of the insert. *)
DerivedHash ==
    generate_task_hash(InsertFields.type, InsertFields.tag, InsertFields.name)

(* The step is a change of progress; its two answers are progress_typed'. *)
AddProgressStep == progress_pc = "loop" /\ progress_command' = "a"

(* The step is a delete command; its answer is progress_typed'. *)
DeleteStep == progress_pc = "loop" /\ progress_command' = "d"

(* The hash typed in a change of progress or a delete, stripped. *)
HashInput == strip(progress_typed'[1])

(* The change typed in a change of progress, stripped. *)
ChangeInput == strip(progress_typed'[2])

(* C11: no two tasks of the in-memory list share a hash, from the empty    *)
(* list (and from a list loaded with one task) through any inserts,        *)
(* changes of progress and deletes; an insert with filled fields and a     *)
(* positive total whose derived hash is the hash of a task of the list     *)
(* shows the warning that quotes this hash and leaves the list and the     *)
(* store as they were.                                                     *)
C11_NoTwoTasksShareAHash ==
    /\ [] NoSharedHash(app_tasks)
    /\ [][ (/\ InsertStep
            /\ FieldsFilled
            /\ TotalPositive
            /\ \E i \in DOMAIN app_tasks : app_tasks[i].hash = DerivedHash)
              => /\ progress_messages' =
                      <<message("Warning: A task with identical details already exists",
                                DerivedHash)>>
                 /\ app_tasks' = app_tasks
                 /\ data_file' = data_file
         ]_vars

C11_Witness ==
    /\ progress_command = "i"
    /\ progress_typed = << <<"a", "b">>, <<"c">>, <<"d">>, <<"2">> >>
    /\ Len(app_tasks) >= 1
    /\ app_tasks[1].type = <<"a">>
    /\ app_tasks[1].hash = <<"7", "6", "2", "3", "3", "5">>
    /\ progress_messages =
         <<message("Warning: A task with identical details already exists",
                   <<"7", "6", "2", "3", "3", "5">>)>>

(* C12: every task of the in-memory list has total > 0 and                 *)
(* 0 <= current <= total, whatever inserts, changes of progress (positive, *)
(* negative, larger than the total) and deletes were made.                 *)
C12_ProgressWithinTotal ==
    \A i \in DOMAIN app_tasks :
        /\ app_tasks[i].total_digit > 0
        /\ 0 <= app_tasks[i].current_progress
        /\ app_tasks[i].current_progress <= app_tasks[i].total_digit

C12_Witness ==
    /\ progress_command = "a"
    /\ progress_typed = << <<"7", "6", "2">>, <<"5">> >>
    /\ ProgressShown(progress_messages, "Progress updated")
    /\ \E i \in DOMAIN app_tasks :
         /\ app_tasks[i].total_digit = 2
         /\ app_tasks[i].current_progress = 2

(* C13: a change of progress whose hash is the prefix of exactly one       *)
(* task's hash and whose change is an integer sets that task's current to  *)
(* clamp(current + change, 0, total), shows no error for a change that     *)
(* leaves the range, and changes no other task and no other field; at      *)
(* current = total a positive change, and at current = 0 a negative one,   *)
(* leaves current as it is.                                                *)
C13_ChangeIsClamped ==
    [][ (/\ AddProgressStep
         /\ HashInput # <<>>
         /\ Cardinality(Matching(app_tasks, HashInput)) = 1
         /\ int(ChangeInput) # None)
          => LET i == CHOOSE i \in Matching(app_tasks, HashInput) : TRUE
                 task == app_tasks[i]
                 change == int(ChangeInput)[1]
             IN  /\ app_tasks' =
                      [app_tasks EXCEPT ![i].current_progress =
                         Clamp(task.current_progress + change, 0, task.total_digit)]
                 /\ Last(progress_messages') = message("Progress updated", task.hash)
                 /\ \A m \in DOMAIN progress_messages' :
                      progress_messages'[m].text \in
                        {"Progress updated", "Error saving tasks"}
                 /\ (task.current_progress = task.total_digit /\ change > 0)
                      => app_tasks'[i].current_progress = task.total_digit
                 /\ (task.current_progress = 0 /\ change < 0)
                      => app_tasks'[i].current_progress = 0
      ]_vars

C13_Witness ==
    /\ progress_command = "a"
    /\ progress_typed = << <<" ", "7", "6", "1", " ">>, <<"-", "5">> >>
    /\ progress_messages =
         <<message("Progress updated", <<"7", "6", "1", "0", "8", "4">>)>>
    /\ \E i \in DOMAIN app_tasks :
         /\ app_tasks[i].hash = <<"7", "6", "1", "0", "8", "4">>
         /\ app_tasks[i].current_progress = 0

(* The insert passes the checks of handle_insert_task: fields filled, a    *)
(* positive total, a hash no task of the list has.                         *)
InsertAccepted ==
    /\ FieldsFilled
    /\ TotalPositive
    /\ \A i \in DOMAIN app_tasks : app_tasks[i].hash # DerivedHash

(* The task an accepted insert creates. *)
InsertedTask ==
    [hash |-> DerivedHash, type |-> InsertFields.type, tag |-> InsertFields.tag,
     name |-> InsertFields.name, total_digit |-> int(InsertFields.total)[1],
     current_progress |-> 0]

(* What a failed save can leave of the file f: f itself, an empty file,    *)
(* the beginning of a document.                                            *)
AfterFailedSave(f) ==
    {f, [kind |-> "list", recs |-> <<>>], [kind |-> "malformed", recs |-> <<>>]}

(* The save of the step stored the list, or failed and said so. *)
SavedOrReported ==
    IF ProgressShown(progress_messages', "Error saving tasks")
    THEN data_file' \in AfterFailedSave(data_file)
    ELSE data_file' = Stored(app_tasks')

(* C15, as stated: an accepted insert appends one task with current 0 and  *)
(* the derived hash at the end of the list, leaves the tasks before it as  *)
(* they were and persists the list; an insert with an empty field, an      *)
(* unparsable total or a total <= 0 leaves list and store unchanged.       *)
C15_InsertAppendsAndPersists ==
    [][ InsertStep
          => /\ InsertAccepted
                  => /\ app_tasks' = Append(app_tasks, InsertedTask)
                     /\ data_file' = Stored(app_tasks')
             /\ ~(FieldsFilled /\ TotalPositive)
                  => (app_tasks' = app_tasks /\ data_file' = data_file)
      ]_vars

(* C15, amended: the accepted insert appends the task to the in-memory     *)
(* list as stated and calls save_tasks; the store holds the new list when  *)
(* the save succeeds, and when it fails the error is shown, the task stays *)
(* in the in-memory list and the file is as it was or truncated.  The      *)
(* refused inserts as stated.                                              *)
C15_InsertAppendsAndSaves ==
    [][ InsertStep
          => /\ InsertAccepted
                  => /\ app_tasks' = Append(app_tasks, InsertedTask)
                     /\ SavedOrReported
                     /\ Last(progress_messages') =
                          message("Task added with hash", DerivedHash)
             /\ ~(FieldsFilled /\ TotalPositive)
                  => (app_tasks' = app_tasks /\ data_file' = data_file)
      ]_vars

C15_Witness ==
    /\ progress_command = "i"
    /\ progress_typed = << <<" ", "a">>, <<"a", " ">>, <<"b">>, <<" ", "+", "1">> >>
    /\ Len(app_tasks) = 2
    /\ app_tasks[2] = [hash |-> <<"7", "6", "1", "0", "8", "4">>,
                       type |-> <<"a">>, tag |-> <<"a">>, name |-> <<"b">>,
                       total_digit |-> 1, current_progress |-> 0]
    /\ data_file = Stored(app_tasks)
    /\ progress_messages =
         <<message("Task added with hash", <<"7", "6", "1", "0", "8", "4">>)>>

(* The sequence without its element at position i. *)
RemoveAt(seq, i) == SubSeq(seq, 1, i - 1) \o SubSeq(seq, i + 1, Len(seq))

LookupErrors ==
    {"Error: Hash and change value cannot be empty", "Error: Hash cannot be empty",
     "No task found for hash", "Ambiguous hash",
     "Error: Change amount must be an integer"}

(* C17: a change of progress or a delete whose hash is empty, matches no   *)
(* task or matches several, and a change of progress whose change is no    *)
(* integer, ends in its handler with one message: no task's current        *)
(* changes, no task is removed, the store is not written and the loop      *)
(* goes on.                                                                *)
C17_FailedLookupChangesNothing ==
    [][ (/\ AddProgressStep \/ DeleteStep
         /\ \/ HashInput = <<>>
            \/ Cardinality(Matching(app_tasks, HashInput)) # 1
            \/ AddProgressStep /\ int(ChangeInput) = None)
          => /\ app_tasks' = app_tasks
             /\ data_file' = data_file
             /\ progress_pc' = "loop"
             /\ Len(progress_messages') = 1
             /\ progress_messages'[1].text \in LookupErrors
      ]_vars

C17_Witness ==
    /\ progress_command = "a"
    /\ progress_typed = << <<"7">>, <<"+", "1">> >>
    /\ Len(app_tasks) = 2
    /\ progress_messages = <<message("Ambiguous hash", <<"7">>)>>
    /\ progress_pc = "loop"

(* The command of the step changed the list and saved it. *)
Mutated ==
    \/ ProgressShown(progress_messages', "Task added with hash")
    \/ ProgressShown(progress_messages', "Progress updated")
    \/ ProgressShown(progress_messages', "Task deleted")

(* C18: at startup the in-memory list is what the store holds; after an    *)
(* insert, a change of progress or a delete whose save succeeds the store  *)
(* holds the in-memory list, element for element and in order; every other *)
(* step (a refused command, another key, no key) leaves the store as it    *)
(* is and never reads the list again from it.                              *)
C18_StoreFollowsList ==
    /\ (progress_pc = "loop" /\ data_file.kind = "list") => app_tasks = data_file.recs
    /\ [][ IF Mutated
           THEN ~ProgressShown(progress_messages', "Error saving tasks")
                  => data_file' = Stored(app_tasks')
           ELSE data_file' = data_file /\ app_tasks' = app_tasks
         ]_vars

C18_Witness ==
    /\ progress_command = "a"
    /\ progress_typed = << <<"7", "6", "2">>, <<"-", "1">> >>
    /\ progress_messages =
         <<message("Progress updated", <<"7", "6", "2", "3", "3", "5">>)>>
    /\ Len(app_tasks) = 2
    /\ data_file = Stored(app_tasks)

----------------------------------------------------------------------------
(* The properties of the pure functions of the progress tracker.           *)

(* The calls of the function among the remembered ones, as positions. *)
CallsOf(fn) == { i \in DOMAIN call : call[i].fn = fn }

(* C14: find_task_by_hash_prefix answers by the tasks whose hash starts    *)
(* with the prefix: None when there is none (so for every prefix on an     *)
(* empty list, and for every prefix of more than 6 characters), the task   *)
(* itself when there is exactly one, and otherwise the list of exactly     *)
(* these tasks, in the order of the list; the empty prefix matches every   *)
(* task.                                                                   *)
C14_ThreeWayLookup ==
    \A c \in CallsOf("find_task_by_hash_prefix") :
        LET tasks == call[c].args[1]
            hash_prefix == call[c].args[2]
            found == result[c]
            matching == Matching(tasks, hash_prefix)
        IN  /\ found.kind \in {"None", "task", "list"}
            /\ found.kind = "None" <=> matching = {}
            /\ found.kind = "task" <=> Cardinality(matching) = 1
            /\ found.kind = "task" => \A i \in matching : found.task = <<tasks[i]>>
            /\ found.kind = "list" <=> Cardinality(matching) >= 2
            /\ found.kind = "list"
                 => /\ Len(found.matches) = Cardinality(matching)
                    /\ Range(found.matches) = { tasks[i] : i \in matching }
                    /\ \A i, j \in DOMAIN found.matches :
                         i < j => \E k, l \in matching :
                                    /\ k < l
                                    /\ tasks[k] = found.matches[i]
                                    /\ tasks[l] = found.matches[j]
            /\ tasks = <<>> => found.kind = "None"
            /\ Len(hash_prefix) > 6 => found.kind = "None"
            /\ hash_prefix = <<>> => matching = DOMAIN tasks
            /\ (hash_prefix = <<>> /\ Len(tasks) >= 2)
                 => (found.kind = "list" /\ found.matches = tasks)

C14_Witness ==
    /\ Len(call) = 1
    /\ call[1].fn = "find_task_by_hash_prefix"
    /\ Len(call[1].args[1]) = 3
    /\ call[1].args[1][2].hash = <<"0", "5", "4", "2", "0", "6">>
    /\ call[1].args[2] = <<"7", "6">>
    /\ result[1].kind = "list"
    /\ Len(result[1].matches) = 2

(* What the program returns for the texts of the model: the decimal value  *)
(* of the MD5 digest modulo 1,000,000, in six digits.                      *)
KnownHash(text) ==
    CASE text = <<"a", "b", "c">> -> <<"8", "0", "3", "5", "7", "0">>
      [] text = <<"a", "a", "b">> -> <<"7", "6", "1", "0", "8", "4">>
      [] text = <<"b", "a", "d">> -> <<"0", "5", "4", "2", "0", "6">>
      [] text = <<"a", "b", "c", "d">> -> <<"7", "6", "2", "3", "3", "5">>

(* C19: generate_task_hash returns exactly six decimal digits, those of    *)
(* the digest of the concatenated fields modulo 1,000,000 with zeros in    *)
(* front, and returns the same for the same triple whatever was called     *)
(* before, a lookup in a list of tasks included.                           *)
C19_HashIsSixDigitsAndDeterministic ==
    \A c \in CallsOf("generate_task_hash") :
        LET args == call[c].args
        IN  /\ Len(result[c]) = 6
            /\ \A i \in 1..Len(result[c]) : result[c][i] \in Range(Digits)
            /\ result[c] = KnownHash(args[1] \o args[2] \o args[3])
            /\ \A d \in CallsOf("generate_task_hash") :
                 call[d].args = args => result[d] = result[c]

C19_Witness ==
    /\ Len(call) = 2
    /\ call[1].fn = "find_task_by_hash_prefix"
    /\ call[1].args[1] # <<>>
    /\ call[2].fn = "generate_task_hash"
    /\ call[2].args = << <<"b">>, <<"a">>, <<"d">> >>
    /\ result[2] = <<"0", "5", "4", "2", "0", "6">>

(* The track of a bar of the given length with the given number of fill    *)
(* characters: the fill, one marker unless the fill takes the whole        *)
(* length, empty-track characters up to the length.                        *)
Track(length, filled) ==
    [i \in 1..length |->
        IF i <= filled THEN "=" ELSE IF i = filled + 1 THEN ">" ELSE "-"]

----------------------------------------------------------------------------
(* Further properties of the time tracker.                                 *)

(* C21: between commands the stopwatch flag is set exactly when a start    *)
(* time is kept.  The session begins stopped with no start time; an 's'    *)
(* while stopped with a valid descriptor sets the flag and the start time  *)
(* (the clock's reading); an 's' while running clears both, also when the  *)
(* load of the list raises and ends the session or the save fails.         *)
C21_RunningIffStartTime ==
    /\ ~is_stopwatch_running /\ stopwatch_start_time = None
    /\ [] (is_stopwatch_running <=> stopwatch_start_time # None)
    /\ [][ /\ (handle_stopwatch_toggle /\ ~is_stopwatch_running /\ ~EmptyDescriptor)
               => (is_stopwatch_running' /\ stopwatch_start_time' = <<clock>>)
           /\ (handle_stopwatch_toggle /\ is_stopwatch_running)
               => (~is_stopwatch_running' /\ stopwatch_start_time' = None)
         ]_vars

C21_Witness ==
    /\ command = "s"
    /\ pc = "crashed"
    /\ ~is_stopwatch_running
    /\ stopwatch_start_time = None
    /\ last_saved_duration # None
    /\ ~EmptyDescriptor

(* The step is an iteration of the loop: not the clock moving, not the     *)
(* file removed from outside.                                              *)
LoopIteration == ~Tick /\ ~FileRemoved

(* The record or descriptor has a field that is not empty. *)
SomeFieldFilled(d) == d.type # <<>> \/ d.tag # <<>> \/ d.name # <<>>

(* The record carries the descriptor. *)
Carries(r, d) == r.type = d.type /\ r.tag = d.tag /\ r.name = d.name

(* C22: while the stopwatch runs the descriptor has a non-empty field and  *)
(* does not change, from the accepted start up to and including the stop,  *)
(* so the record a stop emits (stored, or left unstored by a failed save)  *)
(* carries the descriptor of its start; the record of a manual entry       *)
(* carries the current descriptor; every record emitted has a non-empty    *)
(* descriptor field.                                                       *)
C22_RecordsCarryTheRunningDescriptor ==
    /\ [] (is_stopwatch_running => SomeFieldFilled(current_task_info))
    /\ [] (\A r \in Range(persisted) \cup unsaved : SomeFieldFilled(r))
    /\ [][ /\ is_stopwatch_running => current_task_info' = current_task_info
           /\ (LoopIteration /\ command' = "s" /\ is_stopwatch_running /\ pc' = "loop")
                => IF Saved(messages')
                   THEN Carries(Last(persisted'), current_task_info)
                   ELSE \E r \in unsaved' : Carries(r, current_task_info)
           /\ (LoopIteration /\ command' = "a"
                 /\ Shown(messages', "Manual task added successfully"))
                => IF Saved(messages')
                   THEN Carries(Last(persisted'), current_task_info)
                   ELSE \E r \in unsaved' : Carries(r, current_task_info)
         ]_vars

C22_Witness ==
    /\ command = "s"
    /\ ~is_stopwatch_running
    /\ Saved(messages)
    /\ Len(persisted) = 2
    /\ persisted[1].type = <<"w">>
    /\ persisted[2].type = <<>>
    /\ persisted[2].tag = <<"w">>
    /\ Carries(persisted[2], current_task_info)

(* The command of the step emits a record: a stop, or a manual entry that  *)
(* reports success.                                                        *)
EmitsRecord ==
    \/ command' = "s" /\ is_stopwatch_running
    \/ command' = "a" /\ Shown(messages', "Manual task added successfully")

(* C23: an iteration of the loop with no key, or with a key that is none   *)
(* of i, s, a, q in either case, leaves the descriptor, the flag, the      *)
(* start time, the last duration and the store as they are, shows at most  *)
(* the invalid-command message and stays in the loop.  Hence an iteration  *)
(* whose load and save do not fail makes the persisted list one record     *)
(* longer when it is a stop or a successful manual entry, and leaves its   *)
(* length alone otherwise: the records count the stops and the successful  *)
(* manual entries.                                                         *)
C23_OtherKeysChangeNothing ==
    [][ LoopIteration
          => /\ command' \notin {"i", "s", "a", "q"}
                  => /\ UNCHANGED <<state, file>>
                     /\ pc' = "loop"
                     /\ messages' = IF command' = "" THEN <<>>
                                    ELSE <<"Invalid command">>
             /\ (pc' # "crashed" /\ ~Shown(messages', "Error saving tasks"))
                  => Len(persisted') =
                       Len(persisted) + (IF EmitsRecord THEN 1 ELSE 0)
      ]_vars

C23_Witness ==
    /\ command = "x"
    /\ messages = <<"Invalid command">>
    /\ pc = "loop"
    /\ is_stopwatch_running
    /\ stopwatch_start_time = <<1>>
    /\ Len(persisted) = 1

============================================================================
